---- MODULE Spec2Model ----
(***************************************************************************)
(* The grid-merge game of src/app/index.tsx (component Mosaic2048Game):    *)
(* the React state of the component, the two interval timers, the pending  *)
(* setTimeout callbacks with the render values their closures captured,    *)
(* and the shared, mutable tile objects.                                   *)
(*                                                                         *)
(* A tile object is a heap cell: a grid holds references (1, 2, ...; 0 is  *)
(* null) and tileValue[ref] is the object's value field.  A callback that  *)
(* was created in an earlier render reads the grid of that render (a       *)
(* snapshot of references) but the present value of every tile object.     *)
(***************************************************************************)
EXTENDS Integers, Sequences, FiniteSets, TLC

\* ---------------------------------------------------------------- constants
GAME_DURATION == 90
GRID_SIZE == 4
BASE_SCORE_PER_MERGE == 10
\* COMBO_MULTIPLIER = 1.5, kept exact as the fraction COMBO_NUM / COMBO_DEN
COMBO_NUM == 3
COMBO_DEN == 2
\* the first value of the countdown
COUNTDOWN_START == 3
\* a merge within this many milliseconds of the last one continues the streak
STREAK_WINDOW == 2000

\* ------------------------------------------------------------------- bounds
\* board-changing moves in one behaviour
MaxMoves == 1
\* startCountdown calls in one behaviour
MaxGames == 2
\* Math.random() picks emptyCells[0 .. MaxRandomIndex] (and never past the end)
MaxRandomIndex == 1
\* callbacks waiting in the timer queue
MaxPending == 2
\* the user swipes only in the first and in the last MaxSwipeTicks seconds of a game
MaxSwipeTicks == 1
\* board-changing moves in one behaviour that starts from a game in progress
MaxBoardMoves == 2
\* tiles created in one behaviour of the tile ids
MaxTiles == 6
\* the value Date.now() returns before any merge has happened; lastMergeTime is
\* still 0 then, and any value of at least STREAK_WINDOW is read alike
Epoch == 5000

\* the milliseconds between the last merge and a later reading of Date.now()
ClockGaps == {1500, 2000, 3000}

Idx == 1..GRID_SIZE
Directions == {"left", "right", "up", "down"}
SpawnValuesWithThree == {2, 3}

\* "Math.random() < 0.9 ? 2 : 4"
SpawnValues == {2, 4}

NoTimer == [on |-> FALSE]

\* ------------------------------------------------------------------ helpers
RECURSIVE Pow(_, _)
Pow(b, e) == IF e = 0 THEN 1 ELSE b * Pow(b, e - 1)

Max(a, b) == IF a >= b THEN a ELSE b
Min(a, b) == IF a <= b THEN a ELSE b

RECURSIVE SumSeq(_)
SumSeq(s) == IF s = <<>> THEN 0 ELSE Head(s) + SumSeq(Tail(s))

\* Array(GRID_SIZE).fill(null).map(() => Array(GRID_SIZE).fill(null))
EmptyGrid == [y \in Idx |-> [x \in Idx |-> 0]]

\* the cells of a grid in the order of the loops "for y ... for x ..."
CellOrder == [k \in 1..(GRID_SIZE * GRID_SIZE) |->
                [y |-> ((k - 1) \div GRID_SIZE) + 1, x |-> ((k - 1) % GRID_SIZE) + 1]]

\* --------------------------------------------------------- the move (swipe)
transpose(matrix) == [j \in Idx |-> [i \in Idx |-> matrix[i][j]]]

safeFlipHorizontally(row) == [i \in Idx |-> row[GRID_SIZE + 1 - i]]

flipHorizontally(matrix) == [i \in Idx |-> safeFlipHorizontally(matrix[i])]

PointsWithoutCombo(mergeValue, streak) == BASE_SCORE_PER_MERGE * mergeValue

\* Math.floor(BASE_SCORE_PER_MERGE * mergeValue * Math.pow(COMBO_MULTIPLIER, streak))
Points(mergeValue, streak) ==
  (BASE_SCORE_PER_MERGE * mergeValue * Pow(COMBO_NUM, streak)) \div Pow(COMBO_DEN, streak)

NewMergeStreakInclusive(currentTime, lastMerge, streak) ==
  IF currentTime - lastMerge <= STREAK_WINDOW THEN streak + 1 ELSE 0

\* "if (timeSinceLastMerge < 2000) newMergeStreak++ else newMergeStreak = 0"
NewMergeStreak(currentTime, lastMerge, streak) ==
  IF currentTime - lastMerge < STREAK_WINDOW THEN streak + 1 ELSE 0

\* the condition of the merge branch, for the tile at index i of the filtered row
CanMerge(tiles, i, st) ==
  /\ i > 1
  /\ st.val[tiles[i - 1]] = st.val[tiles[i]]
  /\ tiles[i - 1] \notin st.matched

MergeIntoWithoutDoubling(prev, st) ==
  LET mergeValue == 2 * st.val[prev]
  IN [st EXCEPT !.matched = @ \cup {prev},
                !.points = Append(@, Points(mergeValue, st.streak)),
                !.merged = Append(@, prev),
                !.moved = TRUE]

\* the merge branch: tiles[i-1] is marked, doubled, scored and recorded
MergeInto(prev, st) ==
  LET mergeValue == 2 * st.val[prev]
  IN [st EXCEPT !.matched = @ \cup {prev},
                !.val = [@ EXCEPT ![prev] = mergeValue],
                !.points = Append(@, Points(mergeValue, st.streak)),
                !.merged = Append(@, prev),
                !.moved = TRUE]

RetainNeverMoved(row, cur, i, res, st) == st

\* the else branch: the tile is kept in the next open slot of resultRow
Retain(row, cur, i, res, st) ==
  LET resultIdx == Len(res) + 1
  IN [st EXCEPT !.moved = @ \/ (resultIdx # i \/ row[resultIdx] # cur)]

PadRowRepeatingLast(res) ==
  [x \in Idx |-> IF x <= Len(res) THEN res[x]
                 ELSE IF Len(res) > 0 THEN res[Len(res)] ELSE 0]

\* resultRow: the kept tiles, then nulls
PadRow(res) == [x \in Idx |-> IF x <= Len(res) THEN res[x] ELSE 0]

RECURSIVE RowLoop(_, _, _, _, _)
RowLoop(row, tiles, i, res, st) ==
  IF i > Len(tiles) THEN [row |-> PadRow(res), st |-> st]
  ELSE IF CanMerge(tiles, i, st)
       THEN RowLoop(row, tiles, i + 1, res, MergeInto(tiles[i - 1], st))
       ELSE RowLoop(row, tiles, i + 1, Append(res, tiles[i]),
                    Retain(row, tiles[i], i, res, st))

\* one row moved left; st is the state the loop mutates: the tile objects' values
\* and isMatched flags, the points passed to setScore, mergedTiles and moved
moveRowLeft(row, st) ==
  RowLoop(row, SelectSeq(row, LAMBDA t : t # 0), 1, <<>>, st)

ProcessRowNotFlippedBack(row, st, flipped) ==
  IF flipped THEN moveRowLeft(safeFlipHorizontally(row), st) ELSE moveRowLeft(row, st)

\* safeProcessRow, or flip(safeProcessRow(flip(row))) for right and down
ProcessRow(row, st, flipped) ==
  IF flipped
  THEN LET r == moveRowLeft(safeFlipHorizontally(row), st)
       IN [row |-> safeFlipHorizontally(r.row), st |-> r.st]
  ELSE moveRowLeft(row, st)

RECURSIVE RowsLoop(_, _, _, _)
RowsLoop(matrix, i, st, flipped) ==
  IF i > GRID_SIZE THEN [grid |-> matrix, st |-> st]
  ELSE LET r == ProcessRow(matrix[i], st, flipped)
       IN RowsLoop([matrix EXCEPT ![i] = r.row], i + 1, r.st, flipped)

\* "Process grid based on direction"
ProcessGrid(gridCopy, direction, st) ==
  CASE direction = "left" -> RowsLoop(gridCopy, 1, st, FALSE)
    [] direction = "right" -> RowsLoop(gridCopy, 1, st, TRUE)
    [] direction = "up" ->
         LET r == RowsLoop(transpose(gridCopy), 1, st, FALSE)
         IN [grid |-> transpose(r.grid), st |-> r.st]
    [] direction = "down" ->
         LET r == RowsLoop(transpose(gridCopy), 1, st, TRUE)
         IN [grid |-> transpose(r.grid), st |-> r.st]

\* the locals of handleSwipe before the grid is processed; every isMatched flag of
\* the grid is reset, so no tile starts the move matched
SwipeStart(vals, streak) ==
  [val |-> vals, matched |-> {}, points |-> <<>>, merged |-> <<>>,
   moved |-> FALSE, streak |-> streak]

\* the grid, the tile values, moved, mergedTiles and the points of one swipe
Move(g, vals, direction, streak) == ProcessGrid(g, direction, SwipeStart(vals, streak))

\* ------------------------------------------------------------------- state
VARIABLES
  gameState,       \* 'idle' | 'countdown' | 'playing' | 'gameover'
  grid,            \* grid[y][x]: a tile reference, or 0 for null
  tileValue,       \* tileValue[ref]: the value field of every tile object created
  score, timeLeft, highScore, countdown, mergeStreak, lastMergeTime,
  isSidebarOpen,
  gameTimer,       \* the interval gameTimerRef holds, with the score and highScore
                   \* its endGame closure captured
  countdownTimer,  \* the interval countdownTimerRef holds, with the grid its
                   \* startGame -> addRandomTile closure captured
  leakedTimers,    \* countdown intervals still running that the ref no longer holds
  pending,         \* the setTimeout callbacks not yet run, oldest first
  moves, games,    \* the moves and the games a behaviour has left
  tileIdCounter,   \* tileIdCounter.current
  tileIds,         \* the id of every tile createTile has returned, in order
  dateNow          \* the value Date.now() returned to the last createTile call

vars == <<gameState, grid, tileValue, score, timeLeft, highScore, countdown,
          mergeStreak, lastMergeTime, isSidebarOpen, gameTimer, countdownTimer,
          leakedTimers, pending, moves, games, tileIdCounter, tileIds, dateNow>>

\* The id field of a tile takes no part in a move, a spawn or a check: the
\* operations of the game leave these three as they are, and createTile below
\* follows them.
tileVars == <<tileIdCounter, tileIds, dateNow>>

\* the useState initial values and the useRef initial values
Init ==
  /\ gameState = "idle"
  /\ grid = EmptyGrid
  /\ tileValue = <<>>
  /\ score = 0
  /\ timeLeft = GAME_DURATION
  /\ highScore = 0
  /\ countdown = COUNTDOWN_START
  /\ mergeStreak = 0
  /\ lastMergeTime = 0
  /\ isSidebarOpen = FALSE
  /\ gameTimer = NoTimer
  /\ countdownTimer = NoTimer
  /\ leakedTimers = <<>>
  /\ pending = <<>>
  /\ moves = MaxMoves
  /\ games = MaxGames
  /\ tileIdCounter = 0
  /\ tileIds = <<>>
  /\ dateNow = Epoch

\* ------------------------------------------------------- board inspection
getEmptyCells(g) == SelectSeq(CellOrder, LAMBDA c : g[c.y][c.x] = 0)

isBoardFull(g) == Len(getEmptyCells(g)) = 0

\* g is the grid of the render that created the callback; vals are the tile
\* objects' values when it runs
hasAvailableMoves(g, vals) ==
  \/ ~isBoardFull(g)
  \/ \E y \in Idx, x \in Idx :
        /\ g[y][x] # 0
        /\ \/ x < GRID_SIZE /\ g[y][x + 1] # 0 /\ vals[g[y][x + 1]] = vals[g[y][x]]
           \/ y < GRID_SIZE /\ g[y + 1][x] # 0 /\ vals[g[y + 1][x]] = vals[g[y][x]]

\* the tiles on a grid and their values
TileCount(g) == Cardinality({c \in Idx \X Idx : g[c[1]][c[2]] # 0})

ValueAt(g, vals, y, x) == IF g[y][x] = 0 THEN 0 ELSE vals[g[y][x]]

ValueGrid(g, vals) == [y \in Idx |-> [x \in Idx |-> ValueAt(g, vals, y, x)]]

\* ----------------------------------------------------------------- spawn
\* the values Math.floor(Math.random() * emptyCells.length) takes in this model
RandomIndexes(n) == 1..Min(n, MaxRandomIndex + 1)

PlaceTileUnchecked(prevGrid, cell, ref) == [prevGrid EXCEPT ![cell.y][cell.x] = ref]

\* the updater passed to setGrid: the cell is checked in the grid of the moment
PlaceTile(prevGrid, cell, ref) ==
  IF prevGrid[cell.y][cell.x] # 0 THEN prevGrid
  ELSE [prevGrid EXCEPT ![cell.y][cell.x] = ref]

\* addRandomTile of a render whose grid was snap, run on the grid g of the moment
\* with the random index k and the random value v; a tile object that is not
\* placed is held by no grid, and is left out of tileValue
addRandomTile(snap, g, vals, k, v) ==
  LET emptyCells == getEmptyCells(snap)
  IN IF Len(emptyCells) = 0 THEN [grid |-> g, val |-> vals]
     ELSE LET newGrid == PlaceTile(g, emptyCells[k], Len(vals) + 1)
          IN [grid |-> newGrid,
              val |-> IF newGrid = g THEN vals ELSE Append(vals, v)]

\* the random draws of one addRandomTile call
Draws(snap) ==
  IF Len(getEmptyCells(snap)) = 0 THEN {[k |-> 1, v |-> 2]}
  ELSE [k : RandomIndexes(Len(getEmptyCells(snap))), v : SpawnValues]

\* ---------------------------------------------------------------- timers
\* a callback is aged when an interval fired or was started after it was set: it
\* is due (200 or 300 ms) before that interval's next tick (1000 ms)
AgeAll(p) == [i \in 1..Len(p) |-> [p[i] EXCEPT !.aged = TRUE]]

NoAged(p) == \A i \in 1..Len(p) : ~p[i].aged

Timeout(kind, snap, s, h, aged) ==
  [kind |-> kind, snap |-> snap, score |-> s, high |-> h, aged |-> aged]

endGameStoresAnyScore(s, h) ==
  /\ gameState' = "gameover"
  /\ gameTimer' = NoTimer
  /\ highScore' = s

\* endGame of a render whose score and highScore were s and h
endGame(s, h) ==
  /\ gameState' = "gameover"
  /\ gameTimer' = NoTimer
  /\ highScore' = IF s > h THEN s ELSE highScore

\* ------------------------------------------------------------- operations
\* what the interface lets the user press: the start buttons are rendered in
\* 'idle' and 'gameover', the backdrop covers the screen while the sidebar is
\* open, and the countdown overlay covers the avatar button
CanPressStart == gameState \in {"idle", "gameover"} /\ ~isSidebarOpen

CanToggleSidebar == isSidebarOpen \/ gameState # "countdown"

\* startCountdown, called in the render of the moment; when it is called in
\* 'playing' the cleanup of the game timer effect clears the game interval
startCountdown ==
  /\ games > 0
  /\ games' = games - 1
  /\ gameState' = "countdown"
  /\ countdown' = COUNTDOWN_START
  /\ countdownTimer' = [on |-> TRUE, snap |-> grid]
  /\ leakedTimers' = IF countdownTimer.on THEN Append(leakedTimers, countdownTimer)
                     ELSE leakedTimers
  /\ pending' = AgeAll(pending)
  /\ gameTimer' = IF gameState = "playing" THEN NoTimer ELSE gameTimer
  /\ UNCHANGED tileVars
  /\ UNCHANGED <<grid, tileValue, score, timeLeft, highScore, mergeStreak,
                 lastMergeTime, isSidebarOpen, moves>>

\* a start button is pressed
StartCountdown == CanPressStart /\ startCountdown

\* startGame, called by the countdown interval whose closure captured the grid snap;
\* the tile objects of the cleared grid are garbage once no callback holds them;
\* the game timer effect runs when gameState becomes 'playing', in the render in
\* which score is already 0
startGame(snap) ==
  /\ gameState' = "playing"
  /\ grid' = EmptyGrid
  /\ tileValue' = IF pending = <<>> THEN <<>> ELSE tileValue
  /\ score' = 0
  /\ mergeStreak' = 0
  /\ timeLeft' = GAME_DURATION
  /\ pending' = Append(AgeAll(pending), Timeout("start", snap, 0, 0, TRUE))
  /\ gameTimer' = IF gameState # "playing"
                  THEN [on |-> TRUE, score |-> 0, high |-> highScore]
                  ELSE gameTimer

CountdownDoneEarly(prev) == prev <= 2

\* "if (prev <= 1)": the tick ends the countdown
CountdownDone(prev) == prev <= 1

\* one tick of a countdown interval: the updater passed to setCountdown
CountdownTick ==
  /\ NoAged(pending)
  /\ \E c \in {countdownTimer} \cup {leakedTimers[i] : i \in 1..Len(leakedTimers)} :
       /\ c.on
       /\ IF CountdownDone(countdown)
          THEN /\ countdownTimer' = NoTimer
               /\ startGame(c.snap)
               /\ countdown' = 0
          ELSE /\ countdown' = countdown - 1
               /\ pending' = AgeAll(pending)
               /\ UNCHANGED <<gameState, grid, tileValue, score, mergeStreak,
                              timeLeft, gameTimer, countdownTimer>>
  /\ UNCHANGED tileVars
  /\ UNCHANGED <<highScore, lastMergeTime, isSidebarOpen, leakedTimers,
                 moves, games>>

TimeUpLate(prev) == prev <= 0

\* "if (prev <= 1)": the tick ends the game
TimeUp(prev) == prev <= 1

\* one tick of the game interval: the updater passed to setTimeLeft
GameTick ==
  /\ gameTimer.on
  /\ NoAged(pending)
  /\ pending' = AgeAll(pending)
  /\ IF TimeUp(timeLeft)
     THEN /\ endGame(gameTimer.score, gameTimer.high)
          /\ timeLeft' = 0
     ELSE /\ timeLeft' = timeLeft - 1
          /\ UNCHANGED <<gameState, gameTimer, highScore>>
  /\ UNCHANGED tileVars
  /\ UNCHANGED <<grid, tileValue, score, countdown, mergeStreak, lastMergeTime,
                 isSidebarOpen, countdownTimer, leakedTimers, moves, games>>

TimerKeptInBackground(timer) == timer

\* "if (countdownTimerRef.current) clearInterval(countdownTimerRef.current)"
TimerInBackground(timer) == NoTimer

\* the AppState listener, for 'background' and 'inactive'
AppBackground ==
  /\ IF gameState = "countdown"
     THEN /\ countdownTimer' = TimerInBackground(countdownTimer)
          /\ gameState' = "idle"
     ELSE UNCHANGED <<countdownTimer, gameState>>
  /\ UNCHANGED tileVars
  /\ UNCHANGED <<grid, tileValue, score, timeLeft, highScore, countdown, mergeStreak,
                 lastMergeTime, isSidebarOpen, gameTimer, leakedTimers, pending,
                 moves, games>>

TimerKeptWhenOpened(timer) == timer

\* "if (gameTimerRef.current) clearInterval(gameTimerRef.current)" on opening
TimerWhenOpened(timer) == NoTimer

\* "gameTimerRef.current = setInterval(...)" on closing: the interval's endGame is
\* the one of the render in which the panel was closed
TimerWhenClosed(s, h) == [on |-> TRUE, score |-> s, high |-> h]

\* toggleSidebar: the game interval is cleared, and set again on closing
ToggleSidebar ==
  /\ CanToggleSidebar
  /\ isSidebarOpen' = ~isSidebarOpen
  /\ IF gameState = "playing"
     THEN IF isSidebarOpen
          THEN /\ gameTimer' = TimerWhenClosed(score, highScore)
               /\ pending' = AgeAll(pending)
          ELSE /\ gameTimer' = TimerWhenOpened(gameTimer)
               /\ UNCHANGED pending
     ELSE UNCHANGED <<gameTimer, pending>>
  /\ UNCHANGED tileVars
  /\ UNCHANGED <<gameState, grid, tileValue, score, timeLeft, highScore, countdown,
                 mergeStreak, lastMergeTime, countdownTimer, leakedTimers,
                 moves, games>>

\* resetGame, which no element of the interface calls: the state becomes 'idle'
\* and the grid and the tile list are cleared; the cleanup of the game timer
\* effect clears the game interval when the state was 'playing'; the countdown
\* interval and the callbacks that wait are left as they are
resetGame ==
  /\ gameState' = "idle"
  /\ grid' = EmptyGrid
  /\ tileValue' = IF pending = <<>> THEN <<>> ELSE tileValue
  /\ gameTimer' = IF gameState = "playing" THEN NoTimer ELSE gameTimer
  /\ UNCHANGED tileVars
  /\ UNCHANGED <<score, timeLeft, highScore, countdown, mergeStreak, lastMergeTime,
                 isSidebarOpen, countdownTimer, leakedTimers, pending, moves, games>>

TileIdWithoutCounter(t, counter) == t

\* "const id = Date.now() + tileIdCounter.current++": the id, for the value t of
\* Date.now() and the value of the counter before the increment
TileId(t, counter) == t + counter

\* the values Date.now() can return to createTile: the value it returned last (two
\* tiles of one callback are created in the same millisecond) or a later one
TileClockGaps == {0, 1, 2}

\* createTile, called by addRandomTile with Date.now() returning t
createTile(t) ==
  /\ Len(tileIds) < MaxTiles
  /\ dateNow' = t
  /\ tileIds' = Append(tileIds, TileId(t, tileIdCounter))
  /\ tileIdCounter' = tileIdCounter + 1
  /\ UNCHANGED <<gameState, grid, tileValue, score, timeLeft, highScore, countdown,
                 mergeStreak, lastMergeTime, isSidebarOpen, gameTimer, countdownTimer,
                 leakedTimers, pending, moves, games>>

CreateTile == \E gap \in TileClockGaps : createTile(dateNow + gap)

SwipeAcceptedInAnyState == ~isSidebarOpen

SwipeAcceptedWhilePaused == gameState = "playing"

\* handleSwipe accepts the swipe: the sidebar is closed and the game is playing
SwipeAccepted == ~isSidebarOpen /\ gameState = "playing"

\* the values Date.now() can return to handleSwipe: time does not run backwards,
\* and it is compared with the time of the last merge only
ClockReadings ==
  IF lastMergeTime = 0 THEN {Epoch}
  ELSE {lastMergeTime + gap : gap \in ClockGaps}

\* the streak handleSwipe computes before it processes the grid
SwipeStreak(currentTime) == NewMergeStreak(currentTime, lastMergeTime, mergeStreak)

\* the result of processing the grid of the moment in a direction
SwipeResult(direction, currentTime) ==
  Move(grid, tileValue, direction, SwipeStreak(currentTime))

\* the streak stored by a swipe that merged n tiles
StreakAfter(n, newMergeStreak) == IF n > 0 THEN newMergeStreak ELSE mergeStreak

LastMergeAfterAnyMove(n, currentTime) == currentTime

\* the time stored by a swipe that merged n tiles
LastMergeAfter(n, currentTime) == IF n > 0 THEN currentTime ELSE lastMergeTime

SwipeCommitsAlways(r) == TRUE

\* "if (!moved) return": what follows runs only when this holds
SwipeCommits(r) == r.st.moved

\* the callback handleSwipe sets: it keeps the grid, score and highScore of the
\* render that created handleSwipe
SwipeTimeout == Timeout("spawn", grid, score, highScore, FALSE)

\* the seconds of a game in which the user swipes
InSwipeWindow ==
  timeLeft > GAME_DURATION - MaxSwipeTicks \/ timeLeft <= MaxSwipeTicks

\* handleSwipe(direction), with currentTime the value Date.now() returns to it
HandleSwipe(direction, currentTime) ==
  IF ~SwipeAccepted THEN UNCHANGED vars
  ELSE LET r == SwipeResult(direction, currentTime)
       IN IF ~SwipeCommits(r) THEN UNCHANGED vars
          ELSE /\ moves > 0
               /\ Len(pending) < MaxPending
               /\ InSwipeWindow
               /\ moves' = moves - 1
               /\ tileValue' = r.st.val
               /\ score' = score + SumSeq(r.st.points)
               /\ lastMergeTime' = LastMergeAfter(Len(r.st.merged), currentTime)
               /\ mergeStreak' = StreakAfter(Len(r.st.merged), SwipeStreak(currentTime))
               /\ grid' = r.grid
               /\ pending' = Append(pending, SwipeTimeout)
               /\ UNCHANGED tileVars
               /\ UNCHANGED <<gameState, timeLeft, highScore, countdown,
                              isSidebarOpen, gameTimer, countdownTimer, leakedTimers,
                              games>>

Swipe ==
  \E direction \in Directions, currentTime \in ClockReadings :
    HandleSwipe(direction, currentTime)

\* the callback of startGame: addRandomTile twice, both of the same render
FireStart ==
  /\ pending # <<>>
  /\ Head(pending).kind = "start"
  /\ \E d1 \in Draws(Head(pending).snap), d2 \in Draws(Head(pending).snap) :
       LET a == addRandomTile(Head(pending).snap, grid, tileValue, d1.k, d1.v)
           b == addRandomTile(Head(pending).snap, a.grid, a.val, d2.k, d2.v)
       IN /\ grid' = b.grid
          /\ tileValue' = b.val
  /\ pending' = Tail(pending)
  /\ UNCHANGED tileVars
  /\ UNCHANGED <<gameState, score, timeLeft, highScore, countdown, mergeStreak,
                 lastMergeTime, isSidebarOpen, gameTimer, countdownTimer,
                 leakedTimers, moves, games>>

\* the callback of handleSwipe: addRandomTile, then the game-over check is set
FireSpawn ==
  /\ pending # <<>>
  /\ Head(pending).kind = "spawn"
  /\ \E d \in Draws(Head(pending).snap) :
       LET a == addRandomTile(Head(pending).snap, grid, tileValue, d.k, d.v)
       IN /\ grid' = a.grid
          /\ tileValue' = a.val
  /\ pending' = Append(Tail(pending), [Head(pending) EXCEPT !.kind = "check"])
  /\ UNCHANGED tileVars
  /\ UNCHANGED <<gameState, score, timeLeft, highScore, countdown, mergeStreak,
                 lastMergeTime, isSidebarOpen, gameTimer, countdownTimer,
                 leakedTimers, moves, games>>

\* the inner callback: "if (!hasAvailableMoves()) endGame()"
FireCheck ==
  /\ pending # <<>>
  /\ Head(pending).kind = "check"
  /\ pending' = Tail(pending)
  /\ IF ~hasAvailableMoves(Head(pending).snap, tileValue)
     THEN endGame(Head(pending).score, Head(pending).high)
     ELSE UNCHANGED <<gameState, gameTimer, highScore>>
  /\ UNCHANGED tileVars
  /\ UNCHANGED <<grid, tileValue, score, timeLeft, countdown, mergeStreak,
                 lastMergeTime, isSidebarOpen, countdownTimer, leakedTimers,
                 moves, games>>

Next ==
  \/ StartCountdown
  \/ CountdownTick
  \/ GameTick
  \/ AppBackground
  \/ ToggleSidebar
  \/ Swipe
  \/ FireStart
  \/ FireSpawn
  \/ FireCheck

Spec == Init /\ [][Next]_vars

\* ------------------------------------------------- a game in progress
\* Boards of a first game in which nothing has merged yet (every tile is a spawned
\* 2 or 4 and the score is 0): any first row of at least one tile over an empty
\* rest, and the alternating board with its first cell missing or holding a 4.
\* Each is reached from the start of a game by moves that merge nothing.
Checker == [y \in Idx |-> [x \in Idx |-> IF (y + x) % 2 = 0 THEN 2 ELSE 4]]

RowBoards ==
  {[y \in Idx |-> IF y = 1 THEN row ELSE [x \in Idx |-> 0]] :
     row \in [Idx -> {0, 2, 4}] \ {[x \in Idx |-> 0]}}

BoardSet ==
  RowBoards \cup {[Checker EXCEPT ![1][1] = 0], [Checker EXCEPT ![1][1] = 4]}

\* the tile objects of a board of values, numbered in cell order
Filled(vg) == SelectSeq(CellOrder, LAMBDA c : vg[c.y][c.x] # 0)

TilesOf(vg) == [k \in 1..Len(Filled(vg)) |-> vg[Filled(vg)[k].y][Filled(vg)[k].x]]

RefsOf(vg) ==
  [y \in Idx |-> [x \in Idx |->
     IF vg[y][x] = 0 THEN 0
     ELSE CHOOSE k \in 1..Len(Filled(vg)) : Filled(vg)[k] = [y |-> y, x |-> x]]]

InitBoard ==
  /\ gameState = "playing"
  /\ \E vg \in BoardSet :
       /\ grid = RefsOf(vg)
       /\ tileValue = TilesOf(vg)
  /\ score = 0
  /\ timeLeft = MaxSwipeTicks
  /\ highScore = 0
  /\ countdown = 0
  /\ mergeStreak = 0
  /\ lastMergeTime = 0
  /\ isSidebarOpen = FALSE
  /\ gameTimer = [on |-> TRUE, score |-> 0, high |-> 0]
  /\ countdownTimer = NoTimer
  /\ leakedTimers = <<>>
  /\ pending = <<>>
  /\ moves = MaxBoardMoves
  /\ games = 0
  /\ tileIdCounter = 0
  /\ tileIds = <<>>
  /\ dateNow = Epoch

NextBoard ==
  \/ Swipe
  \/ FireSpawn
  \/ FireCheck
  \/ GameTick

SpecBoard == InitBoard /\ [][NextBoard]_vars

\* ------------------------------------------- the operations called directly
\* startCountdown called in any state, with nothing of the interface in its way
NextApi ==
  \/ startCountdown
  \/ CountdownTick
  \/ GameTick
  \/ AppBackground
  \/ ToggleSidebar
  \/ Swipe
  \/ FireStart
  \/ FireSpawn
  \/ FireCheck

SpecApi == Init /\ [][NextApi]_vars

\* ------------------------------------- a full board in the last second
\* The last second of a first game on the alternating board with its first cell
\* missing or holding a 4, with games left to replay.
InitReplay ==
  /\ gameState = "playing"
  /\ \E vg \in BoardSet \ RowBoards :
       /\ grid = RefsOf(vg)
       /\ tileValue = TilesOf(vg)
  /\ score = 0
  /\ timeLeft = 1
  /\ highScore = 0
  /\ countdown = 0
  /\ mergeStreak = 0
  /\ lastMergeTime = 0
  /\ isSidebarOpen = FALSE
  /\ gameTimer = [on |-> TRUE, score |-> 0, high |-> 0]
  /\ countdownTimer = NoTimer
  /\ leakedTimers = <<>>
  /\ pending = <<>>
  /\ moves = MaxMoves
  /\ games = MaxGames
  /\ tileIdCounter = 0
  /\ tileIds = <<>>
  /\ dateNow = Epoch

SpecReplay == InitReplay /\ [][Next]_vars

\* --------------------------------------------------- resetGame called
\* the application with resetGame called in any state
NextReset ==
  \/ resetGame
  \/ StartCountdown
  \/ CountdownTick
  \/ GameTick
  \/ AppBackground
  \/ ToggleSidebar
  \/ Swipe
  \/ FireStart
  \/ FireSpawn
  \/ FireCheck

SpecReset == Init /\ [][NextReset]_vars

\* ------------------------------------------------------- the tile ids
\* createTile called again and again, in one game or another: no operation of the
\* game touches tileIdCounter between two calls
NextTile == CreateTile

SpecTile == Init /\ [][NextTile]_vars

\* ------------------------------------------------------ timers that fire
\* The timers of the platform fire: a callback that is due runs, the game interval
\* ticks again and again while it is set (also when the user pauses and resumes
\* over and over), and a paused game is resumed.
Fairness ==
  /\ WF_vars(FireStart)
  /\ WF_vars(FireSpawn)
  /\ WF_vars(FireCheck)
  /\ SF_vars(GameTick)
  /\ WF_vars(gameState = "playing" /\ isSidebarOpen /\ ToggleSidebar)

SpecReplayFair == InitReplay /\ [][Next]_vars /\ Fairness

\* ------------------------------------------------ the rules the move is held to
\* a row of values merged pairwise from the left: the first two equal neighbours
\* merge, and the tile after them starts a new pair
RECURSIVE ClassicRow(_)
ClassicRow(s) ==
  IF Len(s) < 2 THEN s
  ELSE IF s[1] = s[2] THEN <<2 * s[1]>> \o ClassicRow(SubSeq(s, 3, Len(s)))
       ELSE <<s[1]>> \o ClassicRow(Tail(s))

ClassicLeft(vg) ==
  [y \in Idx |-> PadRow(ClassicRow(SelectSeq(vg[y], LAMBDA v : v # 0)))]

ClassicMove(vg, direction) ==
  CASE direction = "left" -> ClassicLeft(vg)
    [] direction = "right" -> flipHorizontally(ClassicLeft(flipHorizontally(vg)))
    [] direction = "up" -> transpose(ClassicLeft(transpose(vg)))
    [] direction = "down" ->
         transpose(flipHorizontally(ClassicLeft(flipHorizontally(transpose(vg)))))

\* the values on the board
Board == ValueGrid(grid, tileValue)

\* a move in this direction relocates no tile and merges nothing
NoOpMove(direction) == ClassicMove(Board, direction) = Board

\* the tiles of line i of the board, as a move in this direction takes them
LineRefs(direction, i) ==
  IF direction \in {"left", "right"}
  THEN {grid[i][x] : x \in Idx} \ {0}
  ELSE {grid[y][i] : y \in Idx} \ {0}

\* the tiles whose value a step doubled: one per merge
Absorbers ==
  {ref \in DOMAIN tileValue \cap DOMAIN tileValue' : tileValue'[ref] # tileValue[ref]}

\* the streak of a move resolved at currentTime
StreakAt(currentTime) ==
  IF currentTime - lastMergeTime < 2000 THEN mergeStreak + 1 ELSE 0

\* the sum over a set of merged tiles of floor(10 * value * 1.5^streak)
RECURSIVE MergePoints(_, _, _)
MergePoints(refs, vals, streak) ==
  IF refs = {} THEN 0
  ELSE LET ref == CHOOSE x \in refs : TRUE
       IN ((10 * vals[ref] * Pow(3, streak)) \div Pow(2, streak))
          + MergePoints(refs \ {ref}, vals, streak)

\* no empty cell, and no two horizontally or vertically adjacent equal values
Stuck ==
  /\ \A y \in Idx, x \in Idx : Board[y][x] # 0
  /\ \A y \in Idx, x \in Idx :
       /\ x < GRID_SIZE => Board[y][x] # Board[y][x + 1]
       /\ y < GRID_SIZE => Board[y][x] # Board[y + 1][x]

\* a step of handleSwipe(direction): a move that merged stored the reading of
\* Date.now() it was resolved at, and a move that merged nothing did not use it
SwipeStep(direction) == HandleSwipe(direction, lastMergeTime')

\* ------------------------------------------------------------------ claims
\* C1: a move merges strictly pairwise from the side it moves to: whenever a swipe
\* is accepted, the board it computes in any direction is the board of the
\* pairwise left-greedy rule, so [2,2,2,2] gives [4,4,_,_] and [2,2,2,_] gives
\* [4,2,_,_].  moveRowLeft compares a tile with the tile before it in the source
\* row, not with the last tile it kept, so this fails.
C1_MergesPairwiseLeftGreedy ==
  SwipeAccepted =>
    \A d \in Directions :
      LET r == SwipeResult(d, Epoch)
      IN ValueGrid(r.grid, r.st.val) = ClassicMove(Board, d)

\* C2: in one move no tile takes part in two merges: every tile that absorbed
\* another is still on the board (a tile dropped from its row never absorbs), and a
\* line of k tiles has at most floor(k/2) merges.  This fails for three equal tiles.
C2_OneMergePerTile ==
  SwipeAccepted =>
    \A d \in Directions :
      LET r == SwipeResult(d, Epoch)
          merged == {r.st.merged[k] : k \in 1..Len(r.st.merged)}
      IN /\ \A ref \in merged : \E y \in Idx, x \in Idx : r.grid[y][x] = ref
         /\ \A i \in Idx :
              Cardinality({k \in 1..Len(r.st.merged) : r.st.merged[k] \in LineRefs(d, i)})
                <= Cardinality(LineRefs(d, i)) \div 2

\* C3: a swipe in Playing that relocates no tile and merges nothing leaves the
\* board, the tiles, score, mergeStreak and lastMergeTime as they were and sets no
\* spawn and no game-over check: a step that changes any of them is not such a
\* swipe.  The same swipe is then a no-op again, since the board it reads is the same.
C3_NoOpMoveChangesNothing ==
  [][SwipeAccepted =>
       \/ UNCHANGED <<grid, tileValue, score, mergeStreak, lastMergeTime, pending,
                      gameState, timeLeft, highScore>>
       \/ \A d \in Directions : NoOpMove(d) => ~SwipeStep(d)]_vars

\* a game in progress in which a swipe in some direction would change nothing,
\* after a move that changed the board
C3_Witness ==
  /\ SwipeAccepted
  /\ moves < MaxBoardMoves
  /\ TileCount(grid) > 0
  /\ \E d \in Directions : NoOpMove(d)

\* C4: a board-changing move adds to the score the sum over its merges of
\* floor(10 * mergedValue * 1.5^streak), with mergedValue the doubled value and one
\* streak for all the merges of the move; every tile that leaves the board is one
\* merge; [2,2,4,_] swiped left at streak 0 becomes [4,4,_,_] and adds 40.
C4_ScoreIsSumOfMergePoints ==
  [][(SwipeAccepted /\ grid' # grid) =>
       \A d \in Directions :
         \/ /\ score' - score = MergePoints(Absorbers, tileValue', StreakAt(lastMergeTime'))
            /\ Cardinality(Absorbers) = TileCount(grid) - TileCount(grid')
            /\ (d = "left" /\ Board[1] = <<2, 2, 4, 0>> /\ StreakAt(lastMergeTime') = 0) =>
                  /\ Board'[1] = <<4, 4, 0, 0>>
                  /\ score' = score + 40
         \/ ~SwipeStep(d)]_vars

\* the row [2,2,4,_] was swiped left at streak 0
C4_Witness ==
  /\ Board[1] = <<4, 4, 0, 0>>
  /\ TileCount(grid) = 2
  /\ score = 40
  /\ mergeStreak = 0
  /\ lastMergeTime = Epoch

\* C5: a move with at least one merge, resolved at time now (the time it stores),
\* is scored with and stores the streak mergeStreak + 1 if now - lastMergeTime <
\* 2000 and 0 otherwise: 1500 ms after a merge the streak goes up by one, 3000 ms
\* after it the streak is 0.
C5_StreakOfMergingMove ==
  [][(SwipeAccepted /\ Absorbers # {}) =>
       \A d \in Directions :
         \/ /\ mergeStreak' =
                 (IF lastMergeTime' - lastMergeTime < 2000 THEN mergeStreak + 1 ELSE 0)
            /\ score' - score = MergePoints(Absorbers, tileValue', mergeStreak')
            /\ (lastMergeTime # 0 /\ lastMergeTime' - lastMergeTime = 1500) =>
                  mergeStreak' = mergeStreak + 1
            /\ (lastMergeTime # 0 /\ lastMergeTime' - lastMergeTime = 3000) =>
                  mergeStreak' = 0
         \/ ~SwipeStep(d)]_vars

\* two merging moves 1500 ms apart: 4 at streak 0 (40), then 8 at streak 1 (120)
C5_Witness ==
  /\ mergeStreak = 1
  /\ lastMergeTime = Epoch + 1500
  /\ score = 160

\* C6: a move that changes the board and merges nothing leaves mergeStreak,
\* lastMergeTime and score unchanged; a step changes lastMergeTime only if it is a
\* move with at least one merge, and then to a reading of the clock.
C6_OnlyMergesTouchStreakAndTime ==
  [][/\ (SwipeAccepted /\ grid' # grid /\ Absorbers = {}) =>
          \/ UNCHANGED <<mergeStreak, lastMergeTime, score>>
          \/ \A d \in Directions : ~SwipeStep(d)
     /\ lastMergeTime' # lastMergeTime =>
          /\ Absorbers # {}
          /\ lastMergeTime' \in ClockReadings
          /\ \E d \in Directions : SwipeStep(d)]_vars

\* a merging move (40 points at Epoch) was followed by a move that changed the
\* board and merged nothing: its callback holds a grid of as many tiles
C6_Witness ==
  /\ score = 40
  /\ mergeStreak = 0
  /\ lastMergeTime = Epoch
  /\ Len(pending) = 2
  /\ pending[2].kind = "spawn"
  /\ pending[2].snap # grid
  /\ TileCount(pending[2].snap) = TileCount(grid)

\* every step of handleSwipe is a step for some reading of the clock, and back
SwipeStepIsHandleSwipe ==
  [][\A d \in Directions :
       SwipeStep(d) <=> \E t \in ClockReadings : HandleSwipe(d, t)]_vars

\* C7: startCountdown from Idle enters Countdown with countdown = 3; a tick in
\* Countdown at 3 or 2 takes one off and stays in Countdown with the timer running;
\* the tick at 1, and no earlier one, sets countdown to 0, stops the countdown timer
\* and enters Playing with timeLeft = 90.
C7_CountdownToPlaying ==
  [][/\ (gameState = "idle" /\ StartCountdown) =>
          gameState' = "countdown" /\ countdown' = 3 /\ countdownTimer'.on
     /\ gameState = "countdown" => countdown \in 1..3
     /\ (gameState = "countdown" /\ CountdownTick) =>
          IF countdown = 1
          THEN /\ countdown' = 0
               /\ ~countdownTimer'.on
               /\ gameState' = "playing"
               /\ timeLeft' = 90
          ELSE /\ countdown' = countdown - 1
               /\ countdownTimer'.on
               /\ gameState' = "countdown"
               /\ timeLeft' = timeLeft]_vars

\* the tick at 1 has just run: Playing, with the start-of-game spawn still to come
C7_Witness ==
  /\ gameState = "playing"
  /\ countdown = 0
  /\ timeLeft = 90
  /\ ~countdownTimer.on
  /\ pending # <<>>
  /\ Head(pending).kind = "start"

\* C8: once the start-of-game spawn has run, the board holds exactly two tiles (in
\* two distinct cells).  Both addRandomTile calls draw from the empty cells of the
\* grid of the render in which Start was pressed, so they can draw the same cell,
\* and after a game that ended on a full board they draw nothing: this fails.
C8_TwoTilesAtStart ==
  [][FireStart => TileCount(grid') = 2]_vars

\* C9: when the game-over check of a move runs in Playing on a board with no empty
\* cell and no two adjacent equal values, the session enters GameOver.  The check
\* reads the grid of the render before the move, so this fails.
C9_StuckBoardEndsGame ==
  [][(FireCheck /\ gameState = "playing" /\ Stuck) => gameState' = "gameover"]_vars

\* C10: whenever GameOver is entered, highScore becomes the larger of the previous
\* highScore and the score of the game that ended.  endGame compares the score of
\* the render that created its caller, so this fails.
C10_HighScoreOnGameOver ==
  [][(gameState # "gameover" /\ gameState' = "gameover") =>
       highScore' = Max(highScore, score)]_vars

\* C11: in Playing with the clock running, a tick at timeLeft > 1 takes exactly one
\* off and stays in Playing with the clock running; the tick at 1 sets timeLeft to
\* 0, enters GameOver and stops the clock; timeLeft is never below 0, and is at
\* least 1 whenever the clock runs in Playing.
C11_PlayClockTicks ==
  [][/\ timeLeft >= 0
     /\ (gameState = "playing" /\ gameTimer.on) => timeLeft >= 1
     /\ (gameState = "playing" /\ GameTick) =>
          IF timeLeft = 1
          THEN /\ timeLeft' = 0
               /\ gameState' = "gameover"
               /\ ~gameTimer'.on
          ELSE /\ timeLeft' = timeLeft - 1
               /\ gameState' = "playing"
               /\ gameTimer'.on]_vars

\* the play clock ran from 90 down to 0 and the game ended
C11_Witness ==
  /\ gameState = "gameover"
  /\ timeLeft = 0
  /\ ~gameTimer.on

\* C12: the game-over check of a move runs after the move's spawn and judges the
\* board as it then stands: it ends the game exactly when that board has no empty
\* cell and no two adjacent equal values.  The check reads the grid of the render
\* before the move (with the tiles' present values), so this fails.
C12_CheckJudgesBoardAfterSpawn ==
  [][(FireCheck /\ gameState = "playing") =>
       (gameState' = "gameover" <=> Stuck)]_vars

\* C13: the spawn of a move made on a board that was not full adds exactly one tile
\* to the board the move left (which holds the tiles before the move minus one per
\* merge).  The spawn draws its cell from the empty cells before the move and is
\* dropped when the move has filled that cell, so this fails.
C13_SpawnAddsOneTile ==
  [][(FireSpawn /\ Len(pending) = 1 /\ ~isBoardFull(Head(pending).snap)) =>
       TileCount(grid') = TileCount(grid) + 1]_vars

\* C20: moves are serialized: while the spawn or the game-over check of an earlier
\* move is still to run, no step is a swipe that changes the board.  handleSwipe
\* does not look at the callbacks it has set, so this fails.
C20_MovesSerialized ==
  [][(\E i \in 1..Len(pending) : pending[i].kind \in {"spawn", "check"}) =>
       \/ grid' = grid
       \/ \A d \in Directions : ~SwipeStep(d)]_vars

\* the game is paused: Playing with the side panel open
Paused == gameState = "playing" /\ isSidebarOpen

C17_MoveIgnoredOutsidePlaying ==
  [][gameState # "playing" =>
       \/ UNCHANGED <<grid, tileValue, score, mergeStreak, lastMergeTime, timeLeft,
                      gameState, pending>>
       \/ \A d \in Directions : ~SwipeStep(d)]_vars

\* GameOver with the panel closed and a board on which a swipe would move a tile
C17_Witness ==
  /\ gameState = "gameover"
  /\ ~isSidebarOpen
  /\ \E d \in Directions : ~NoOpMove(d)

\* C18: startCountdown called in Countdown or in Playing is a no-op: state,
\* countdown, timeLeft, score and the board stay as they are and no timer is
\* started.  startCountdown has no guard, so this fails.
C18_StartCountdownNoOpWhenBusy ==
  [][(gameState \in {"countdown", "playing"} /\ startCountdown) =>
       UNCHANGED <<gameState, countdown, timeLeft, score, grid, tileValue,
                   countdownTimer, leakedTimers, gameTimer>>]_vars

\* C19: at most one timer is ticking: never a countdown interval and the game
\* interval together, and never two countdown intervals.  A game-over check that
\* runs during the countdown of a replay shows the start button again while the
\* countdown interval still runs, so this fails.
C19_OneTimerAtATime ==
  /\ ~(countdownTimer.on /\ gameTimer.on)
  /\ leakedTimers = <<>>

\* C21: resetGame called in any state yields Idle with an empty board, score 0 and
\* mergeStreak 0, and leaves highScore as it was.  resetGame sets the state and
\* clears the grid only; score and mergeStreak keep their values, so this fails.
C21_ResetGameClearsSession ==
  [][resetGame =>
       /\ gameState' = "idle"
       /\ grid' = EmptyGrid
       /\ score' = 0
       /\ mergeStreak' = 0
       /\ highScore' = highScore]_vars

\* the cells in which two grids differ
ChangedCells(g, h) == {c \in Idx \X Idx : g[c[1]][c[2]] # h[c[1]][c[2]]}

\* the callback of a move that is next to run, and the cell a draw chooses for it
SpawnDue == pending # <<>> /\ Head(pending).kind = "spawn"

ChosenCell(k) == getEmptyCells(Head(pending).snap)[k]

\* C22: a spawn never overwrites an occupied cell.  For every cell a spawn can
\* choose: if the cell is occupied in the board of the moment the board and the
\* tiles are left exactly as they are, and if it is empty the new tile is put
\* there and no other cell changes.  Every step of a spawn callback (of a move or
\* of a game start) keeps every tile that was on the board in its cell with its
\* value, and a move's spawn changes at most one cell.
C22_SpawnNeverOverwrites ==
  [][/\ SpawnDue =>
          \A d \in Draws(Head(pending).snap) :
            LET a == addRandomTile(Head(pending).snap, grid, tileValue, d.k, d.v)
            IN \/ isBoardFull(Head(pending).snap) /\ a.grid = grid /\ a.val = tileValue
               \/ /\ ~isBoardFull(Head(pending).snap)
                  /\ IF grid[ChosenCell(d.k).y][ChosenCell(d.k).x] # 0
                     THEN a.grid = grid /\ a.val = tileValue
                     ELSE /\ ChangedCells(grid, a.grid) =
                               {<<ChosenCell(d.k).y, ChosenCell(d.k).x>>}
                          /\ ValueAt(a.grid, a.val, ChosenCell(d.k).y, ChosenCell(d.k).x) = d.v
     /\ (FireSpawn \/ FireStart) =>
          /\ \A y \in Idx, x \in Idx :
               grid[y][x] # 0 =>
                 /\ grid'[y][x] = grid[y][x]
                 /\ tileValue'[grid[y][x]] = tileValue[grid[y][x]]
          /\ FireSpawn => Cardinality(ChangedCells(grid, grid')) <= 1]_vars

\* the spawn of a move that merged nothing ran on a board the move had left with
\* a tile in the chosen cell: the board still holds as many tiles as before the move
C22_Witness ==
  /\ gameState = "playing"
  /\ Len(pending) = 1
  /\ Head(pending).kind = "check"
  /\ ~isBoardFull(Head(pending).snap)
  /\ Head(pending).snap # grid
  /\ score = 0
  /\ TileCount(grid) = TileCount(Head(pending).snap)

C24_HighScoreNeverDecreases ==
  [][/\ highScore' >= highScore
     /\ (StartCountdown \/ CountdownTick \/ resetGame) => highScore' = highScore]_vars

\* a game is played on after a game that set a high score
C24_Witness ==
  /\ gameState = "playing"
  /\ highScore > 0
  /\ games < MaxGames
  /\ TileCount(grid) > 0

\* C25: each startGame resets the session: on entry to Playing score = 0,
\* mergeStreak = 0, timeLeft = 90 and the time of the last merge is "never" (0, the
\* value before any merge), and highScore is carried over.  startGame does not
\* write lastMergeTime, so a replay starts with the time of the last merge of the
\* game before it: this fails.
C25_StartGameResetsSession ==
  [][(gameState # "playing" /\ gameState' = "playing") =>
       /\ score' = 0
       /\ mergeStreak' = 0
       /\ timeLeft' = GAME_DURATION
       /\ lastMergeTime' = 0
       /\ highScore' = highScore]_vars

\* C26: GameOver is left only on request: a step taken in GameOver stays in
\* GameOver, or is startCountdown and enters Countdown, or is resetGame and enters
\* Idle.  A game-over check of the game before can run during the countdown of a
\* replay; the countdown interval then still ticks in GameOver and its last tick
\* starts a game that nobody asked for, so this fails.
C26_GameOverLeftOnRequest ==
  [][gameState = "gameover" =>
       \/ gameState' = "gameover"
       \/ gameState' = "countdown" /\ startCountdown
       \/ gameState' = "idle" /\ resetGame]_vars

\* C27: the session enters GameOver with time left only if the board of that
\* moment has no empty cell and no two adjacent equal values.  The game-over check
\* judges the grid of the render before the move, with the values the merges of
\* the move gave its tiles, so a board with an empty cell can end the game: this
\* fails.
C27_EarlyGameOverOnlyWhenStuck ==
  [][(gameState # "gameover" /\ gameState' = "gameover" /\ timeLeft' > 0) =>
       Stuck]_vars

\* C28: every game has at least one tile on the board once its start-of-game
\* spawn has run, also a replay after a game that ended on a full board.  The two
\* addRandomTile calls of the start read the grid of the render in which the start
\* button was pressed; when that grid was full they place nothing and the game
\* runs on an empty board: this fails.
C28_GameStartsWithATile ==
  [][FireStart => TileCount(grid') >= 1]_vars

\* the sum of the values on a board of values
BoardSum(vg) == SumSeq([k \in 1..(GRID_SIZE * GRID_SIZE) |-> vg[CellOrder[k].y][CellOrder[k].x]])

\* C29: a move never loses tile value: whenever a swipe is accepted, the board it
\* computes in any direction holds the same sum of tile values as the board before
\* it.  moveRowLeft lets a tile merge into a tile that has itself been merged away,
\* so three equal tiles in a line leave one tile of twice the value: this fails.
C29_MoveKeepsTileValue ==
  SwipeAccepted =>
    \A d \in Directions :
      LET r == SwipeResult(d, Epoch)
      IN BoardSum(ValueGrid(r.grid, r.st.val)) = BoardSum(Board)

\* C30: in GameOver, Idle and Countdown the board is not modified by a move, a
\* spawn or a callback of an earlier move: a step taken outside Playing leaves the
\* board as it is, or clears it on the entry to Playing or by resetGame.  The spawn
\* callback of a move made just before the game ended is not cancelled and puts
\* its tile on the board in GameOver, so this fails.
C30_BoardFrozenOutsidePlaying ==
  [][(gameState # "playing") =>
       \/ Board' = Board
       \/ grid' = EmptyGrid /\ gameState' = "playing"
       \/ grid' = EmptyGrid /\ resetGame]_vars

\* a tile is in some cell of a grid
OnGrid(g, ref) == \E y \in Idx, x \in Idx : g[y][x] = ref

\* the values of the tiles that received a merge in the move r, one per merge, and
\* the values before the move of those that the move itself merged away
ResultValues(r) == [k \in 1..Len(r.st.merged) |-> r.st.val[r.st.merged[k]]]

LostValues(r) ==
  [k \in 1..Len(r.st.merged) |->
     IF OnGrid(r.grid, r.st.merged[k]) THEN 0 ELSE tileValue[r.st.merged[k]]]

C32_GameOverEnteredFromPlaying ==
  [][(gameState # "gameover" /\ gameState' = "gameover") =>
       gameState = "playing"]_vars

\* the cells of a grid that hold a tile, and the tiles of a grid
CellsOf(g, ref) == {c \in Idx \X Idx : g[c[1]][c[2]] = ref}

RefSet(g) == {g[c[1]][c[2]] : c \in Idx \X Idx} \ {0}

\* C33: in every reachable state each tile is in at most one cell of the board,
\* and every tile of the board is a tile that was created; the board a move
\* computes in any direction holds each tile it keeps in exactly one cell, holds
\* no tile that was not on the board, and drops one tile per merge.
C33_TileInOneCell ==
  /\ \A ref \in RefSet(grid) :
       ref \in DOMAIN tileValue /\ Cardinality(CellsOf(grid, ref)) = 1
  /\ SwipeAccepted =>
       \A d \in Directions :
         LET r == SwipeResult(d, Epoch)
         IN /\ RefSet(r.grid) \subseteq RefSet(grid)
            /\ \A ref \in RefSet(r.grid) : Cardinality(CellsOf(r.grid, ref)) = 1
            /\ Cardinality(RefSet(grid) \ RefSet(r.grid)) = Len(r.st.merged)

\* two moves, their spawns and their checks have run, and the game goes on
C33_Witness ==
  /\ gameState = "playing"
  /\ moves = 0
  /\ pending = <<>>
  /\ TileCount(grid) >= 3

\* C34: every game that enters Playing eventually reaches GameOver, when the
\* timers fire and the game is not left paused; in Playing timeLeft is at most 90,
\* no step adds to it and every tick of the play clock takes one off or ends the
\* game, so time expiry comes after at most 90 ticks.  A countdown interval that
\* startCountdown left running calls startGame every second and sets timeLeft
\* back to 90 each time, so this fails.
C34_PlayingReachesGameOver ==
  /\ (gameState = "playing") ~> (gameState = "gameover")
  /\ [][gameState = "playing" =>
          /\ timeLeft <= GAME_DURATION
          /\ timeLeft' <= timeLeft
          /\ GameTick => (timeLeft' = timeLeft - 1 \/ gameState' = "gameover")]_vars

\* C35: after resetGame no countdown timer and no play timer is running, and the
\* session stays in Idle until the next startCountdown.  resetGame clears no
\* timer: the play interval is cleared by the cleanup of its effect, but a
\* countdown interval keeps ticking in Idle and starts the game, so this fails.
C35_ResetCancelsTimers ==
  [][/\ resetGame => (~countdownTimer'.on /\ ~gameTimer'.on)
     /\ (gameState = "idle") => (gameState' = "idle" \/ StartCountdown)]_vars

RECURSIVE IsPowerOfTwo(_)
IsPowerOfTwo(n) == n = 1 \/ (n > 1 /\ n % 2 = 0 /\ IsPowerOfTwo(n \div 2))

\* C36: every tile on the board has a value that is a power of two and at least
\* 2, before and after every step; a tile that a step puts on the board has the
\* value 2 or 4, and a step leaves the value of a tile as it is or doubles it.
C36_ValuesArePowersOfTwo ==
  [][/\ \A ref \in RefSet(grid) : IsPowerOfTwo(tileValue[ref]) /\ tileValue[ref] >= 2
     /\ \A ref \in RefSet(grid') : IsPowerOfTwo(tileValue'[ref]) /\ tileValue'[ref] >= 2
     /\ \A ref \in RefSet(grid') \ RefSet(grid) : tileValue'[ref] \in {2, 4}
     /\ \A ref \in RefSet(grid) \cap RefSet(grid') :
          tileValue'[ref] \in {tileValue[ref], 2 * tileValue[ref]}]_vars

\* a move has merged two 4s into an 8 and its spawn has put a tile on the board
C36_Witness ==
  /\ gameState = "playing"
  /\ moves = MaxBoardMoves - 1
  /\ pending # <<>>
  /\ Head(pending).kind = "check"
  /\ TileCount(grid) > TileCount(Head(pending).snap) - 1
  /\ \E ref \in RefSet(grid) : tileValue[ref] = 8

\* C37: while the side panel is open in Playing a swipe is ignored: a step that
\* changes the board, the tiles, score, mergeStreak or lastMergeTime, or sets a
\* spawn or a game-over check, is not a swipe in any direction.
C37_MoveIgnoredWhilePaused ==
  [][Paused =>
       \/ UNCHANGED <<grid, tileValue, score, mergeStreak, lastMergeTime>>
          /\ Len(pending') <= Len(pending)
       \/ \A d \in Directions : ~SwipeStep(d)]_vars

\* paused on a board on which a swipe would move a tile, with moves left
C37_Witness ==
  /\ Paused
  /\ moves > 0
  /\ pending = <<>>
  /\ \E d \in Directions : ~NoOpMove(d)

\* the two symmetries of the board, on grids of tiles
Mirror(g) == [y \in Idx |-> [x \in Idx |-> g[y][GRID_SIZE + 1 - x]]]

Transposed(g) == [y \in Idx |-> [x \in Idx |-> g[x][y]]]

\* the left pass on a grid of the tiles of the moment
LeftPass(g) == Move(g, tileValue, "left", SwipeStreak(Epoch))

\* two passes merged as many tiles, scored alike, left the tiles with the same
\* values and agree on whether the board changed
SameOutcome(r, l) ==
  /\ Len(r.st.merged) = Len(l.st.merged)
  /\ SumSeq(r.st.points) = SumSeq(l.st.points)
  /\ r.st.val = l.st.val
  /\ r.st.moved = l.st.moved

\* C38: every direction is the left pass under its symmetry: whenever a swipe is
\* accepted, the board a move computes to the right is the mirror of the left pass
\* on the mirrored board, up is the transpose of the left pass on the transposed
\* board, and down is the transpose of the mirror of the left pass on the mirrored
\* transposed board, with as many merges and the same changed result.
C38_DirectionsAreLeftPass ==
  SwipeAccepted =>
    /\ SwipeResult("left", Epoch) = LeftPass(grid)
    /\ LET r == SwipeResult("right", Epoch)
           l == LeftPass(Mirror(grid))
       IN r.grid = Mirror(l.grid) /\ SameOutcome(r, l)
    /\ LET r == SwipeResult("up", Epoch)
           l == LeftPass(Transposed(grid))
       IN r.grid = Transposed(l.grid) /\ SameOutcome(r, l)
    /\ LET r == SwipeResult("down", Epoch)
           l == LeftPass(Mirror(Transposed(grid)))
       IN r.grid = Transposed(Mirror(l.grid)) /\ SameOutcome(r, l)

\* a swipe to the right has merged two 4s: the 8 is at the right end of its row
C38_Witness ==
  /\ gameState = "playing"
  /\ score > 0
  /\ pending # <<>>
  /\ pending[Len(pending)].kind = "spawn"
  /\ \E y \in Idx :
       /\ grid[y][GRID_SIZE] # 0
       /\ tileValue[grid[y][GRID_SIZE]] = 8
       /\ grid[y][1] = 0

\* a tile the move r keeps is in another cell than on the board of the moment
TileRelocated(r) ==
  \E ref \in RefSet(r.grid) : CellsOf(r.grid, ref) # CellsOf(grid, ref)

\* C39: a move is treated as having changed the board, and so goes on to the board
\* update, the spawn and the game-over check, if and only if a tile ends in a cell
\* other than its initial cell or at least one merge occurred: whenever a swipe is
\* accepted, for every direction, handleSwipe passes "if (!moved) return" exactly
\* when the move relocates a tile or merges.
C39_MovedIffRelocatedOrMerged ==
  SwipeAccepted =>
    \A d \in Directions :
      LET r == SwipeResult(d, Epoch)
      IN SwipeCommits(r) <=> (TileRelocated(r) \/ Len(r.st.merged) > 0)

\* a swipe that merged nothing has changed the board, its spawn is pending, and
\* some direction now changes nothing
C39_Witness ==
  /\ SwipeAccepted
  /\ score = 0
  /\ pending # <<>>
  /\ pending[Len(pending)].kind = "spawn"
  /\ \E d \in Directions : ~SwipeCommits(SwipeResult(d, Epoch))
  /\ \E d \in Directions :
       LET r == SwipeResult(d, Epoch)
       IN SwipeCommits(r) /\ Len(r.st.merged) = 0

\* the ranges of the clock, the countdown, the score and the streak
C40_InRange ==
  /\ timeLeft \in 0..GAME_DURATION
  /\ countdown \in 0..COUNTDOWN_START
  /\ score >= 0
  /\ mergeStreak >= 0

\* C40: in every reachable state 0 <= timeLeft <= 90 and 0 <= countdown <= 3, and
\* score and mergeStreak are not negative; within one game, that is from one step
\* of Playing to the next, timeLeft never increases and score never decreases.
\* The ranges hold.  A countdown interval whose reference was overwritten keeps
\* firing in Playing and calls startGame, which sets timeLeft back to 90 and the
\* score to 0 without the session leaving Playing, so the second part fails.
C40_RangesAndMonotoneGame ==
  [][/\ C40_InRange
     /\ C40_InRange'
     /\ (gameState = "playing" /\ gameState' = "playing") =>
          (timeLeft' <= timeLeft /\ score' >= score)]_vars

====
